---- MODULE Spec2Model ----
(***************************************************************************)
(* Conditional rendering atoms of src/src/on/on.js: a comment placeholder  *)
(* anchors a DOM position; a watch on (source, property) runs the layout   *)
(* updater, which removes the tracked sibling and inserts the new layout   *)
(* directly after the anchor.  With them the placeholder helper of         *)
(* src/src/comment.js, UseParent of src/src/use/use.js and the factories   *)
(* of the responsive atoms of src/src/on/on-size.js, their size tracker    *)
(* and the HTML tag atoms of src/src/atoms.js.                             *)
(***************************************************************************)
EXTENDS Integers, Sequences, FiniteSets, TLC

VARIABLES
    cfg,      \* the scenario: number of factory calls, callbacks passed to them
    descs,    \* descriptors returned by the factory calls (closure state)
    ph,       \* realized placeholders: one creation-hook run each
    regs,     \* dataBinder.watch registrations, in registration order
    dom,      \* children of the DOM parent, in document order
    nextId,   \* next fresh node identity
    queue,    \* notifications delivered to watchers and not yet processed
    pc,       \* position of the running update: idle, remove, build, insert
    cur,      \* locals of the running update
    last,     \* the last finished update of each placeholder (history)
    updates,  \* number of notifications delivered so far
    win,      \* the window, sizeData and the last resize event (history)
    tagCall   \* a call of an HTML tag atom and what it returned

vars == <<cfg, descs, ph, regs, dom, nextId, queue, pc, cur, last, updates,
          win, tagCall>>

(***************************************************************************)
(* Bounds of the model.                                                    *)
(***************************************************************************)
MaxUpdates == 3
MaxWidth == 1600
MaxRuns == 2

(***************************************************************************)
(* JavaScript values: a type tag and a payload.                            *)
(***************************************************************************)
JS(t, v) == [t |-> t, v |-> v]
Undefined == JS("undefined", "")
Null == JS("null", "")
True == JS("boolean", "true")
False == JS("boolean", "false")
Num(n) == JS("number", n)
Str(s) == JS("string", s)
Obj(o) == JS("object", o)
Fn(f) == JS("function", f)

\* typeof x
TypeOf(x) == IF x.t = "null" THEN "object" ELSE x.t

\* ToBoolean(x), as used by if (x), x && y, x ? a : b
Truthy(x) ==
    CASE x.t = "undefined" -> FALSE
      [] x.t = "null" -> FALSE
      [] x.t = "boolean" -> x.v = "true"
      [] x.t = "number" -> x.v # "0"
      [] x.t = "string" -> x.v # ""
      [] OTHER -> TRUE

\* a == b (abstract equality) on the values of the model: same type compares
\* the payload, null == undefined, and boolean/number/string compare by
\* their numeric value.
ToNumber(x) ==
    CASE x.t = "boolean" -> (IF x.v = "true" THEN "1" ELSE "0")
      [] x.t = "string" /\ x.v = "" -> "0"
      [] OTHER -> x.v
LooseEquals(a, b) ==
    \/ a = b
    \/ a.t \in {"null", "undefined"} /\ b.t \in {"null", "undefined"}
    \/ /\ a.t \in {"boolean", "number", "string"}
       /\ b.t \in {"boolean", "number", "string"}
       /\ a.t # b.t
       /\ ToNumber(a) = ToNumber(b)

\* a === b
StrictEquals(a, b) == a = b

\* settings[i] of a JavaScript array (0-based, undefined past the end)
At(s, i) == IF i < Len(s) THEN s[i + 1] ELSE Undefined

\* settings.unshift(x)
Unshift(s, x) == <<x>> \o s

\* settings.pop(): the array without its last element
PopRest(s) == IF Len(s) = 0 THEN s ELSE SubSeq(s, 1, Len(s) - 1)
PopValue(s) == IF Len(s) = 0 THEN Undefined ELSE s[Len(s)]

(***************************************************************************)
(* Host contexts (the parent component passed to the creation hook).       *)
(***************************************************************************)
Hosts == {"h1", "h2", "h3", "h4"}

\* parent.data, parent.context, parent.state, parent.route of each host
Host(h) ==
    CASE h = "h1" -> [data |-> Obj("h1.data"), context |-> Obj("h1.context"),
                      state |-> Obj("h1.state"), route |-> Obj("h1.route")]
      [] h = "h2" -> [data |-> Undefined, context |-> Obj("h2.context"),
                      state |-> Obj("h2.state"), route |-> Obj("h2.route")]
      [] h = "h3" -> [data |-> Undefined, context |-> Undefined,
                      state |-> Obj("h3.state"), route |-> Undefined]
      [] OTHER    -> [data |-> Undefined, context |-> Obj("h4.context"),
                      state |-> Undefined, route |-> Undefined]

\* parent.context.data, read only when parent.context is truthy
ContextData(c) ==
    CASE c = Obj("h1.context") -> Obj("h1.context.data")
      [] c = Obj("h2.context") -> Obj("h2.context.data")
      [] OTHER -> Undefined

getParentDataUndefined(parent) ==
    IF Truthy(parent.data) THEN parent.data
    ELSE IF Truthy(parent.context) /\ Truthy(ContextData(parent.context))
         THEN ContextData(parent.context)
    ELSE IF Truthy(parent.state) THEN parent.state
    ELSE Undefined
getParentData(parent) ==
    IF Truthy(parent.data) THEN parent.data
    ELSE IF Truthy(parent.context) /\ Truthy(ContextData(parent.context))
         THEN ContextData(parent.context)
    ELSE IF Truthy(parent.state) THEN parent.state
    ELSE Null

getDataSource(parent, sourceType) ==
    CASE sourceType = "parent" -> getParentData(parent)
      [] sourceType = "state" -> parent.state
      [] sourceType = "route" -> parent.route
      [] OTHER -> Null

(***************************************************************************)
(* The exported atoms: createConditionalAtom(source, defaultProp,          *)
(* transformer) and createLoadStyleAtom(source, prop, transformer).        *)
(***************************************************************************)
CondFamilies == {"On", "OnState", "OnRoute", "If", "IfState"}
LoadFamilies == {"OnLoad", "OnStateLoad", "OnOpen", "OnStateOpen"}
Families == CondFamilies \cup LoadFamilies

\* the two definitions of UseParent in use.js: the variadic one and the
\* one-argument one that tracks ele._prevEle
UseFamilies == {"UseParent", "UseParent2"}

\* the exports of on-size.js: createResponsiveAtom, createExactBreakpointAtom
\* and createSemanticBreakpointAtom
ResponsiveAtoms ==
    {"OnXs", "OnSm", "OnMd", "OnLg", "OnXl", "On2Xl",
     "OnXsOnly", "OnSmOnly", "OnMdOnly", "OnLgOnly", "OnXlOnly", "On2XlOnly",
     "OnPhone", "OnTablet", "OnDesktop"}

Atoms == Families \cup UseFamilies \cup ResponsiveAtoms

\* DATA_SOURCES member each export passes to its factory
SourceType(family) ==
    CASE family \in {"On", "If", "OnLoad", "OnOpen"} -> "parent"
      [] family \in {"OnState", "IfState", "OnStateLoad", "OnStateOpen"} -> "state"
      [] OTHER -> "route"

\* defaultProp of createConditionalAtom (null for every export), prop of
\* createLoadStyleAtom
FamilyPropOpen(family) ==
    IF family \in {"OnLoad", "OnStateLoad", "OnOpen", "OnStateOpen"}
    THEN Str("open") ELSE Null
FamilyProp(family) ==
    CASE family \in {"OnLoad", "OnStateLoad"} -> Str("loaded")
      [] family \in {"OnOpen", "OnStateOpen"} -> Str("open")
      [] OTHER -> Null

(***************************************************************************)
(* Render callbacks.  finalCallback is either the user's callback or       *)
(* createEqualityCallback(callback, expectedValue, fallback).              *)
(***************************************************************************)
PassThrough(callback) ==
    [eq |-> FALSE, callback |-> callback, expected |-> Undefined, fallback |-> Null]

\* the default parameter fallback = null applies to a missing or undefined argument
createEqualityCallback(callback, expectedValue, fallback) ==
    [eq |-> TRUE, callback |-> callback, expected |-> expectedValue,
     fallback |-> IF fallback = Undefined THEN Null ELSE fallback]

createBooleanCallback(callback, fallback) ==
    createEqualityCallback(callback, True, fallback)

\* (value === expectedValue) of the callback createEqualityCallback returns
EqualityMatchesLoose(value, expectedValue) == LooseEquals(value, expectedValue)
EqualityMatches(value, expectedValue) == StrictEquals(value, expectedValue)

\* the callbackTransformer each export passes to its factory
Transform(family, callback, settings) ==
    CASE family \in {"If", "IfState"} ->
            createEqualityCallback(callback, At(settings, 2), Undefined)
      [] family \in {"OnLoad", "OnStateLoad"} ->
            createBooleanCallback(callback,
                IF Len(settings) = 3 THEN At(settings, 2) ELSE Null)
      [] family \in {"OnOpen", "OnStateOpen"} ->
            createBooleanCallback(callback, Undefined)
      [] OTHER -> PassThrough(callback)

(***************************************************************************)
(* Arguments the factories are called with.                                *)
(***************************************************************************)
CbElem == Fn("cbElem")      \* returns one element descriptor, null or undefined
CbAny == Fn("cbAny")        \* returns any shape of layout
CbThrows == Fn("cbThrows")  \* returns one element descriptor or throws
Throw == JS("throw", "Error")       \* outcome of a call that throws
TypeError == JS("throw", "TypeError")
SizeData == Obj("sizeData")
PropSize == Str("size")
Div == Obj("Div")
DivPair == Obj("[Div,Div]")
NestedOn == Obj("[On,Div]")
NotLoaded == Obj("notLoaded")
ExplicitData == Obj("explicit")
PropP == Str("p")
Expected == {True, Num("1"), Str("1")}
Values == {True, False, Num("1"), Str("1")}

\* what a call of the user's callback may return
UserResults(callback) ==
    CASE callback = CbElem -> {Undefined, Null, Div}
      [] callback = CbThrows -> {Div, Throw}
      [] OTHER -> {Undefined, Null, Div, DivPair, NestedOn}

\* the argument lists a scenario calls a factory with, its render callbacks
\* drawn from cbs; the last form of each family has no function to find
ArgForms(family, cbs) ==
    CASE family \in ResponsiveAtoms \cup {"UseParent2"} ->
            {<<cb>> : cb \in cbs} \cup {<<Div>>}
      [] family = "UseParent" ->
            {<<cb>> : cb \in cbs} \cup {<<PropP, cb>> : cb \in cbs} \cup {<<Div>>}
      [] family \in {"On", "OnState", "OnRoute"} ->
            {<<PropP, cb>> : cb \in cbs}
            \cup {<<ExplicitData, PropP, cb>> : cb \in cbs}
            \cup {<<PropP, Div>>}
      [] family \in {"If", "IfState"} ->
            {<<PropP, e, cb>> : e \in Expected, cb \in cbs}
            \cup {<<ExplicitData, PropP, e, cb>> : e \in Expected, cb \in cbs}
            \cup {<<ExplicitData, PropP, True, Div>>}
      [] OTHER ->
            {<<cb>> : cb \in cbs}
            \cup {<<cb, NotLoaded>> : cb \in cbs}
            \cup {<<ExplicitData, cb>> : cb \in cbs}
            \cup {<<ExplicitData, cb, NotLoaded>> : cb \in cbs}
            \cup {<<ExplicitData>>, <<>>}

(***************************************************************************)
(* The placeholder helper.  props and the descriptor are records of the    *)
(* three properties the code reads or writes; a property that is not set   *)
(* reads as undefined.                                                     *)
(***************************************************************************)
Props(type, onCreated, onDestroyed) ==
    [type |-> type, onCreated |-> onCreated, onDestroyed |-> onDestroyed]

\* Comment of comment.js
BaseComment(props) ==
    [tag |-> "comment", textContent |-> props.type \o " placeholder",
     onCreated |-> props.onCreated, onDestroyed |-> Undefined]

OnCreatedHook == Fn("onCreated")
RemovePrevEleHook == Fn("onDestroyed")

\* the props the Comment wrapper of each file passes to the helper: on.js
\* and the first use.js pass type and onCreated, the second use.js adds an
\* onDestroyed that removes ele._prevEle
CommentProps(family) ==
    CASE family = "UseParent" -> Props("use", OnCreatedHook, Undefined)
      [] family = "UseParent2" -> Props("use", OnCreatedHook, RemovePrevEleHook)
      [] OTHER -> Props("on", OnCreatedHook, Undefined)

NoDescriptor ==
    [tag |-> "", textContent |-> "", onCreated |-> Undefined, onDestroyed |-> Undefined]

(***************************************************************************)
(* Factory call: the function createConditionalAtom / createLoadStyleAtom  *)
(* returns, applied to args.  made = FALSE is the early return of          *)
(* undefined.                                                              *)
(***************************************************************************)
FactoryCallback(family, args) ==
    IF family \in CondFamilies THEN PopValue(args)
    ELSE IF TypeOf(At(args, 0)) = "function" THEN At(args, 0) ELSE At(args, 1)

FactorySettings(family, args) ==
    IF family \in CondFamilies THEN PopRest(args) ELSE args

\* if (typeof callback !== 'function') return;
FactoryReturnsAlways(callback) == TRUE
FactoryReturns(callback) == TypeOf(callback) = "function"

\* atom: the export called, family: the factory configuration that runs,
\* user: the caller's callback, callback: the callback the factory holds
Descriptor(atom, family, args, settings, user, callback, made) ==
    [atom |-> atom, family |-> family, args |-> args, settings |-> settings,
     user |-> user, callback |-> callback, made |-> made, realized |-> FALSE,
     props |-> CommentProps(family),
     descriptor |-> IF made THEN BaseComment(CommentProps(family)) ELSE NoDescriptor]

MakeDescriptor(family, args) ==
    Descriptor(family, family, args, FactorySettings(family, args),
               FactoryCallback(family, args), FactoryCallback(family, args),
               FactoryReturns(FactoryCallback(family, args)))

\* the responsive factories: return On(sizeData, 'size', wrapper) for a
\* function callback, undefined otherwise; the wrapper is named by its atom
MakeResponsive(atom, args) ==
    IF FactoryReturns(At(args, 0))
    THEN Descriptor(atom, "On", args, <<SizeData, PropSize>>, At(args, 0), Fn(atom), TRUE)
    ELSE Descriptor(atom, "On", args, <<>>, At(args, 0), Undefined, FALSE)

\* UseParent: both definitions return the placeholder whatever the arguments
MakeUse(family, args) ==
    Descriptor(family, family, args, args, Undefined, Undefined, TRUE)

MakeAtom(atom, args) ==
    CASE atom \in ResponsiveAtoms -> MakeResponsive(atom, args)
      [] atom \in UseFamilies -> MakeUse(atom, args)
      [] OTHER -> MakeDescriptor(atom, args)

(***************************************************************************)
(* Creation hook (onCreated).                                              *)
(***************************************************************************)
\* whether the hook injects the resolved data source in front of settings
InjectsSourceAlways(family, settings) == TRUE
InjectsSourceByLength(family, settings) ==
    IF family \in CondFamilies
    THEN Len(settings) < (IF Truthy(FamilyProp(family)) THEN 1 ELSE 2)
    ELSE Len(settings) < 2
InjectsSource(family, settings) ==
    IF family \in CondFamilies
    THEN Len(settings) < (IF Truthy(FamilyProp(family)) THEN 1 ELSE 2)
    ELSE Len(settings) < 2 \/ TypeOf(At(settings, 0)) = "function"

HookSettings(family, settings, parent) ==
    IF InjectsSource(family, settings)
    THEN Unshift(settings, getDataSource(parent, SourceType(family)))
    ELSE settings

\* the property passed to updateLayout and dataBinder.watch
HookProp(family, settings) ==
    IF family \in CondFamilies
    THEN (IF Truthy(FamilyProp(family)) THEN FamilyProp(family) ELSE At(settings, 1))
    ELSE FamilyProp(family)

(***************************************************************************)
(* The hand-written atoms of the same names in the older copy of on.js:    *)
(* each export has its own argument handling and creation hook.            *)
(***************************************************************************)
\* settings.pop() in the conditional atoms; in the load atoms
\* (typeof settings[0] !== 'function') ? settings[0] : settings[1]
LegacyCallback(family, args) ==
    IF family \in CondFamilies THEN PopValue(args)
    ELSE IF TypeOf(At(args, 0)) # "function" THEN At(args, 0) ELSE At(args, 1)

\* OnRoute tests its callback inside the hook and always returns the comment
LegacyReturns(family, args) ==
    family = "OnRoute" \/ TypeOf(LegacyCallback(family, args)) = "function"

\* if (settings.length < 2), in If and IfState if (settings.length < 3)
LegacyInjectsSource(family, settings) ==
    Len(settings) < (IF family \in {"If", "IfState"} THEN 3 ELSE 2)

LegacyHookSettings(family, settings, parent) ==
    IF LegacyInjectsSource(family, settings)
    THEN Unshift(settings, getDataSource(parent, SourceType(family)))
    ELSE settings

\* settings[1] in the conditional atoms, 'loaded' in all four load atoms
LegacyHookProp(family, settings) ==
    IF family \in CondFamilies THEN At(settings, 1) ELSE Str("loaded")

\* updateCallback of If, IfState and the load atoms
LegacyTransform(family, callback, settings) ==
    CASE family \in {"If", "IfState"} ->
            [eq |-> TRUE, callback |-> callback, expected |-> At(settings, 2),
             fallback |-> Null]
      [] family \in LoadFamilies ->
            [eq |-> TRUE, callback |-> callback, expected |-> True,
             fallback |-> IF Len(settings) = 3 THEN At(settings, 2) ELSE Null]
      [] OTHER -> PassThrough(callback)

(***************************************************************************)
(* The DOM: the children of one parent node.  A node records the           *)
(* placeholder whose update built it (owner 0: not built by an update),    *)
(* and the layout it was built from.                                       *)
(***************************************************************************)
DomNode(id, kind, owner, layout) ==
    [id |-> id, kind |-> kind, owner |-> owner, layout |-> layout]

Unrelated == DomNode(1, "E", 0, Undefined)

\* node kinds Builder.build(layout, null, parent) puts in the fragment:
\* E element, C comment (a nested placeholder), T text
Shape(layout) ==
    CASE layout \in {Null, Undefined} -> <<>>
      [] layout = DivPair -> <<"E", "E">>
      [] layout = NestedOn -> <<"C", "E">>
      [] OTHER -> <<"E">>

\* Builder.build(layout, null, parent): a fragment of fresh nodes
BuilderBuild(layout, owner, firstId) ==
    [k \in 1..Len(Shape(layout)) |->
        DomNode(firstId + k - 1, Shape(layout)[k], owner, layout)]

\* frag.children[0]: the first element child, 0 for undefined
RECURSIVE FirstElementChild(_)
FirstElementChild(frag) ==
    IF frag = <<>> THEN 0
    ELSE IF Head(frag).kind = "E" THEN Head(frag).id
    ELSE FirstElementChild(Tail(frag))

\* prevEle = frag.children[0]: the node the closure tracks after a build
TrackedChildNone(frag) == 0
TrackedChild(frag) == FirstElementChild(frag)

\* Builder.removeNode(node): detaches the node from its parent
BuilderRemoveNode(d, id) == SelectSeq(d, LAMBDA n : n.id # id)

IndexOf(d, id) == CHOOSE k \in 1..Len(d) : d[k].id = id

\* ele.parentNode.insertBefore(frag, ele.nextSibling)
InsertAfterAnchorAtEnd(d, ele, frag) == d \o frag
InsertAfterAnchor(d, ele, frag) ==
    SubSeq(d, 1, IndexOf(d, ele)) \o frag \o SubSeq(d, IndexOf(d, ele) + 1, Len(d))

\* the host inserts the anchor as child number pos + 1 of the parent
InsertAt(d, pos, node) ==
    SubSeq(d, 1, pos) \o <<node>> \o SubSeq(d, pos + 1, Len(d))

\* nodes of the DOM built by updates of placeholder i, in document order
Siblings(i) == SelectSeq(dom, LAMBDA n : n.owner = i /\ n.kind # "anchor")

(***************************************************************************)
(* The size tracker of on-size.js: the breakpoint table, the two pure      *)
(* functions on it and the filters of the three responsive factories.      *)
(***************************************************************************)
BreakpointNames == {"xs", "sm", "md", "lg", "xl", "2xl"}

BREAKPOINTS(name) ==
    CASE name = "xs" -> 0
      [] name = "sm" -> 640
      [] name = "md" -> 768
      [] name = "lg" -> 1024
      [] name = "xl" -> 1280
      [] name = "2xl" -> 1536

\* BREAKPOINTS[key] || 0: a key that is not in the table reads undefined
BreakpointOrZero(key) ==
    IF key.t = "string" /\ key.v \in BreakpointNames THEN BREAKPOINTS(key.v) ELSE 0

getBreakpointNameStrict(width) ==
    IF width > BREAKPOINTS("2xl") THEN Str("2xl")
    ELSE IF width > BREAKPOINTS("xl") THEN Str("xl")
    ELSE IF width > BREAKPOINTS("lg") THEN Str("lg")
    ELSE IF width > BREAKPOINTS("md") THEN Str("md")
    ELSE IF width > BREAKPOINTS("sm") THEN Str("sm")
    ELSE Str("xs")
getBreakpointName(width) ==
    IF width >= BREAKPOINTS("2xl") THEN Str("2xl")
    ELSE IF width >= BREAKPOINTS("xl") THEN Str("xl")
    ELSE IF width >= BREAKPOINTS("lg") THEN Str("lg")
    ELSE IF width >= BREAKPOINTS("md") THEN Str("md")
    ELSE IF width >= BREAKPOINTS("sm") THEN Str("sm")
    ELSE Str("xs")

matchesBreakpointAbove(currentBreakpoint, targetBreakpoint) ==
    BreakpointOrZero(currentBreakpoint) > BreakpointOrZero(targetBreakpoint)
matchesBreakpoint(currentBreakpoint, targetBreakpoint) ==
    BreakpointOrZero(currentBreakpoint) >= BreakpointOrZero(targetBreakpoint)

AtLeastAtoms == {"OnXs", "OnSm", "OnMd", "OnLg", "OnXl", "On2Xl"}
ExactAtoms == {"OnXsOnly", "OnSmOnly", "OnMdOnly", "OnLgOnly", "OnXlOnly", "On2XlOnly"}
SemanticAtoms == {"OnPhone", "OnTablet", "OnDesktop"}

\* the argument each export passes to its factory
TargetBreakpoint(atom) ==
    CASE atom \in {"OnXs", "OnXsOnly"} -> Str("xs")
      [] atom \in {"OnSm", "OnSmOnly"} -> Str("sm")
      [] atom \in {"OnMd", "OnMdOnly"} -> Str("md")
      [] atom \in {"OnLg", "OnLgOnly"} -> Str("lg")
      [] atom \in {"OnXl", "OnXlOnly"} -> Str("xl")
      [] atom \in {"On2Xl", "On2XlOnly"} -> Str("2xl")

TargetBreakpoints(atom) ==
    CASE atom = "OnPhone" -> {Str("xs"), Str("sm")}
      [] atom = "OnTablet" -> {Str("md")}
      [] atom = "OnDesktop" -> {Str("lg"), Str("xl"), Str("2xl")}

\* the test of the wrapper each factory passes to On
WrapperMatchesFrom(atom, currentBreakpoint) ==
    IF atom \in SemanticAtoms
    THEN \E t \in TargetBreakpoints(atom) : matchesBreakpoint(currentBreakpoint, t)
    ELSE matchesBreakpoint(currentBreakpoint, TargetBreakpoint(atom))
WrapperMatches(atom, currentBreakpoint) ==
    CASE atom \in AtLeastAtoms -> matchesBreakpoint(currentBreakpoint, TargetBreakpoint(atom))
      [] atom \in ExactAtoms -> currentBreakpoint = TargetBreakpoint(atom)
      [] atom \in SemanticAtoms -> currentBreakpoint \in TargetBreakpoints(atom)

\* the call of the user's callback in the wrapper: callback(sizeData.size,
\* parent), in the exact factory callback(currentBreakpoint, parent)
WrapperCallArgsWithEle(atom, currentBreakpoint, size, ele, parent) ==
    [argc |-> 3, value |-> IF atom \in ExactAtoms THEN currentBreakpoint ELSE size,
     ele |-> ele, parent |-> parent]
WrapperCallArgs(atom, currentBreakpoint, size, ele, parent) ==
    [argc |-> 2, value |-> IF atom \in ExactAtoms THEN currentBreakpoint ELSE size,
     ele |-> 0, parent |-> parent]

\* no resize event yet
NoEvent ==
    [n |-> 0, sizeBefore |-> Null, widthDiffered |-> FALSE, wrote |-> FALSE,
     notified |-> 0, widthAtSizeWrite |-> 0]

\* the write of size at initialization: whether it happened, the width
\* sizeData held then and the watchers it reached
NoInitWrite == [wrote |-> FALSE, widthAtSizeWrite |-> 0, notified |-> 0]

\* cleanupSizeTracker has not been called
NotCleaned == [called |-> FALSE, size |-> Null, width |-> 0, events |-> 0]

\* window.addEventListener('resize', handleResize)
AddListenerTwice(listeners) == listeners + 2
AddListener(listeners) == listeners + 1

\* initializeSizeTracker with a window of width innerWidth
\* size is written before width, while width is still the 0 the store was
\* made with; the module body runs before any importer can register a watch.
\* The function returned is the cleanup.
initializeSizeTracker(innerWidth) ==
    [hasWindow |-> TRUE, innerWidth |-> innerWidth,
     size |-> getBreakpointName(innerWidth), width |-> innerWidth,
     listeners |-> AddListener(0), ev |-> NoEvent,
     init |-> [wrote |-> TRUE, widthAtSizeWrite |-> 0, notified |-> 0],
     cleanup |-> Fn("cleanup"), cleaned |-> NotCleaned]

\* the module body: sizeData = {size: null, width: 0}, and the tracker is
\* initialized when there is a window
ModuleLoad(hasWindow, innerWidth) ==
    IF hasWindow THEN initializeSizeTracker(innerWidth)
    ELSE [hasWindow |-> FALSE, innerWidth |-> 0, size |-> Null, width |-> 0,
          listeners |-> 0, ev |-> NoEvent, init |-> NoInitWrite,
          cleanup |-> Null, cleaned |-> NotCleaned]

\* sizeData.width = newWidth; sizeData.size = newBreakpoint; the width
\* sizeData holds when the handler writes size
WidthAtSizeWriteStale(newWidth, data) == data.width
WidthAtSizeWrite(newWidth, data) == newWidth

\* window.removeEventListener('resize', handleResize)
RemoveListenerNever(listeners) == listeners
RemoveListener(listeners) == IF listeners > 0 THEN listeners - 1 ELSE 0

\* if (newWidth !== sizeData.width || newBreakpoint !== sizeData.size)
ResizeChangedAlways(newWidth, newBreakpoint, data) == TRUE
ResizeChangedBreakpoint(newWidth, newBreakpoint, data) == newBreakpoint # data.size
ResizeChanged(newWidth, newBreakpoint, data) ==
    newWidth # data.width \/ newBreakpoint # data.size

\* whether the store notifies the watchers of a property on a write: it does
\* for a new value; for a write of the value the property already has the
\* store decides
DeliversOnWrite(old, new) == IF old = new THEN {TRUE, FALSE} ELSE {TRUE}

(***************************************************************************)
(* The HTML tag atoms of atoms.js.  An object is a function from its keys  *)
(* to values; the callback of an atom gets the props object and the        *)
(* children the caller passed.                                             *)
(***************************************************************************)
\* { ...props, key: value }
Spread(props, key, value) ==
    [k \in DOMAIN props \cup {key} |-> IF k = key THEN value ELSE props[k]]

\* Tag = (props, children) => ({ ...props, children })
Tag(props, children) == Spread(props, "children", children)

TagAtoms ==
    {"Doctype", "Html", "Title", "Meta", "Link", "Div", "Span", "Button",
     "SubmitButton", "Img", "Input", "Checkbox"}

\* the object each export returns for (props, children)
TagAtom(atom, props, children) ==
    CASE atom = "Doctype" -> Spread(props, "tag", Str("DOCTYPE"))
      [] atom = "Html" -> Tag(Spread(props, "tag", Str("html")), children)
      [] atom = "Title" -> props
      [] atom = "Meta" -> Spread(props, "tag", Str("meta"))
      [] atom = "Link" -> Spread(props, "tag", Str("link"))
      [] atom = "Div" -> Tag(props, children)
      [] atom = "Span" -> Tag(Spread(props, "tag", Str("span")), children)
      [] atom = "Button" -> Tag(Spread(props, "tag", Str("button")), children)
      [] atom = "SubmitButton" ->
            Tag(Spread(Spread(props, "type", Str("submit")), "tag", Str("button")),
                children)
      [] atom = "Img" -> Tag(Spread(props, "tag", Str("img")), Null)
      [] atom = "Input" -> Tag(Spread(props, "tag", Str("input")), Null)
      [] atom = "Checkbox" ->
            Tag(Spread(Spread(props, "type", Str("checkbox")), "tag", Str("input")),
                Null)

\* props objects and children the calls are made with
PropValues(key) ==
    CASE key = "class" -> {Str("container")}
      [] key = "tag" -> {Str("span"), Str("div"), Str("title")}
      [] key = "type" -> {Str("text")}

PropsObjects ==
    UNION {{p \in [keys -> UNION {PropValues(k) : k \in keys}] :
                \A k \in keys : p[k] \in PropValues(k)} :
           keys \in SUBSET {"class", "tag", "type"}}

ChildrenValues == {Undefined, Str("Hello World")}

NoTagCall == [atom |-> "", props |-> <<>>, children |-> Undefined, result |-> <<>>]

(***************************************************************************)
(* updateLayout: the steps of the function it returns.                     *)
(***************************************************************************)
\* if (layout === undefined) return;
ReturnsEarlyOnNull(layout) == layout = Null
ReturnsEarlyNullish(layout) == LooseEquals(layout, Undefined)
ReturnsEarlyNever(layout) == FALSE
ReturnsEarly(layout) == layout = Undefined

\* if (prevEle) Builder.removeNode(prevEle);
RemovePreviousNever(d, prevEle) == d
RemovePrevious(d, prevEle) ==
    IF prevEle # 0 THEN BuilderRemoveNode(d, prevEle) ELSE d

\* the arguments a call passes: argc of them
NoArgs == [argc |-> 0, value |-> Undefined, ele |-> 0, parent |-> ""]

\* callBack(value, ele, parent) of on.js
CallArgsNoEle(value, ele, parent) ==
    [argc |-> 2, value |-> value, ele |-> 0, parent |-> parent]
CallArgs(value, ele, parent) ==
    [argc |-> 3, value |-> value, ele |-> ele, parent |-> parent]

\* callBack(parent) of use.js
UseArgs(parent) ==
    [argc |-> 1, value |-> Undefined, ele |-> 0, parent |-> parent]

NoCur ==
    [ph |-> 0, value |-> Undefined, layout |-> Undefined, invoked |-> FALSE,
     args |-> NoArgs, sibsBefore |-> <<>>, prevBefore |-> 0, removed |-> 0,
     frag |-> <<>>, userCalled |-> FALSE, userArgs |-> NoArgs]
NoLast ==
    [n |-> 0, value |-> Undefined, layout |-> Undefined, invoked |-> FALSE,
     args |-> NoArgs, sibsBefore |-> <<>>, prevBefore |-> 0, removed |-> 0,
     frag |-> <<>>, threw |-> FALSE, userCalled |-> FALSE, userArgs |-> NoArgs]

\* the record of a finished update
Finished(i, c) ==
    [n |-> last[i].n + 1, value |-> c.value, layout |-> c.layout,
     invoked |-> c.invoked, args |-> c.args, sibsBefore |-> c.sibsBefore,
     prevBefore |-> c.prevBefore, removed |-> c.removed, frag |-> c.frag,
     threw |-> c.layout.t = "throw", userCalled |-> c.userCalled,
     userArgs |-> c.userArgs]

\* the state a placeholder keeps: the closure variables of the creation
\* hook and of updateLayout (for UseParent ele._prevEle), and what the host
\* did with the anchor
Placeholder(d, h, ele, prop, callBack, prevEle) ==
    [desc |-> d, host |-> h, ele |-> ele, prop |-> prop, callBack |-> callBack,
     prevEle |-> prevEle, destroyed |-> FALSE, onDestroyedRuns |-> 0]

(***************************************************************************)
(* Initial state: nothing created, one unrelated child in the parent.  The *)
(* scenario makes one factory call, of any export, with a render callback  *)
(* that returns one element descriptor, null or undefined, or one that     *)
(* returns an element descriptor or throws.                                *)
(***************************************************************************)
Init ==
    /\ cfg = [descs |-> 1, families |-> Atoms, callbacks |-> {CbElem, CbThrows}]
    /\ descs = <<>>
    /\ ph = <<>>
    /\ regs = <<>>
    /\ dom = <<Unrelated>>
    /\ nextId = 2
    /\ queue = <<>>
    /\ pc = "idle"
    /\ cur = NoCur
    /\ last = <<>>
    /\ updates = 0
    /\ win = ModuleLoad(FALSE, 0)
    /\ tagCall = NoTagCall

Quiet == pc = "idle" /\ queue = <<>>

Placeholders == 1..Len(ph)
PhFamily(i) == descs[ph[i].desc].family
PhArgs(i) == descs[ph[i].desc].args
PhCallback(i) == descs[ph[i].desc].callback

(***************************************************************************)
(* A factory export is called with args.                                   *)
(***************************************************************************)
FactoryCall(family, args) ==
    /\ Quiet
    /\ Len(descs) < cfg.descs
    /\ descs' = Append(descs, MakeAtom(family, args))
    /\ UNCHANGED <<win, tagCall, cfg, ph, regs, dom, nextId, queue, pc, cur, last, updates>>

(***************************************************************************)
(* The host builder realizes descriptor d under host h: it attaches the    *)
(* anchor and runs the creation hook.                                      *)
(***************************************************************************)
\* onCreated(ele, parent) of on.js, run on the anchor the host attached
CreationHook(d, h, pos) ==
    /\ descs[d].made
    /\ descs[d].family \notin UseFamilies
    /\ LET family == descs[d].family
           settings == HookSettings(family, descs[d].settings, Host(h))
           prop == HookProp(family, settings)
           finalCallback == Transform(family, descs[d].callback, settings)
       IN /\ descs' = [descs EXCEPT ![d].settings = settings, ![d].realized = TRUE]
          /\ ph' = Append(ph, Placeholder(d, h, nextId, prop, finalCallback, 0))
          /\ regs' = Append(regs, [ele |-> nextId, src |-> At(settings, 0),
                                   prop |-> prop, update |-> Len(ph) + 1,
                                   released |-> FALSE])
    /\ dom' = InsertAt(dom, pos, DomNode(nextId, "anchor", Len(ph) + 1, Undefined))
    /\ nextId' = nextId + 1
    /\ last' = Append(last, NoLast)
    /\ UNCHANGED <<win, tagCall, cfg, queue, pc, cur, updates>>

Realize(d, h, pos) ==
    /\ Quiet
    /\ ~descs[d].realized
    /\ CreationHook(d, h, pos)

\* the host builds a descriptor it has built before, under another host:
\* a new anchor, and the creation hook of the same descriptor runs again
RealizeAgain(d, h, pos) ==
    /\ Quiet
    /\ descs[d].realized
    /\ Cardinality({i \in 1..Len(ph) : ph[i].desc = d}) < MaxRuns
    /\ \A i \in 1..Len(ph) : ph[i].desc = d => ph[i].host # h
    /\ CreationHook(d, h, pos)

(***************************************************************************)
(* The watch mechanism delivers value v for (src, prop) to every watcher   *)
(* registered on that pair, in registration order.                         *)
(***************************************************************************)
Watchers(src, prop) ==
    SelectSeq(regs, LAMBDA r : r.src = src /\ r.prop = prop /\ ~r.released)

\* sizeData.size is written by the resize handler only
Notify(r, v) ==
    /\ Quiet
    /\ updates < MaxUpdates
    /\ regs[r].src.t = "object"
    /\ regs[r].src # SizeData
    /\ ~regs[r].released
    /\ LET w == Watchers(regs[r].src, regs[r].prop)
       IN queue' = [k \in 1..Len(w) |-> [ph |-> w[k].update, value |-> v]]
    /\ updates' = updates + 1
    /\ UNCHANGED <<win, tagCall, cfg, descs, ph, regs, dom, nextId, pc, cur, last>>

(***************************************************************************)
(* The update function of updateLayout, step by step.                      *)
(***************************************************************************)
\* the callback On gets from a responsive factory is that factory's wrapper
IsWrapper(callback) == callback.t = "function" /\ callback.v \in ResponsiveAtoms

\* what callBack(value, ele, parent) can return: for a wrapper the result of
\* the user's callback when its test passes and null otherwise
CallResults(callback, value, user) ==
    IF IsWrapper(callback)
    THEN (IF WrapperMatches(callback.v, value) THEN UserResults(user) ELSE {Null})
    ELSE UserResults(callback)

\* let layout = callBack(value, ele, parent); if (layout === undefined) return;
\* an error the callback throws leaves the function at the call
UpdateCall ==
    /\ pc = "idle"
    /\ queue # <<>>
    /\ LET i == Head(queue).ph
           v == Head(queue).value
           f == ph[i].callBack
           invoked == ~f.eq \/ EqualityMatches(v, f.expected)
           args == IF invoked THEN CallArgs(v, ph[i].ele, ph[i].host) ELSE NoArgs
           wrapped == IsWrapper(f.callback)
           userCalled == IF wrapped THEN WrapperMatches(f.callback.v, v) ELSE invoked
           user == descs[ph[i].desc].user
       IN \E layout \in (IF invoked THEN CallResults(f.callback, v, user) ELSE {f.fallback}) :
            LET c == [ph |-> i, value |-> v, layout |-> layout, invoked |-> invoked,
                      args |-> args,
                      sibsBefore |-> Siblings(i), prevBefore |-> ph[i].prevEle,
                      removed |-> 0, frag |-> <<>>,
                      userCalled |-> userCalled,
                      userArgs |-> IF ~wrapped THEN args
                                   ELSE IF userCalled
                                   THEN WrapperCallArgs(f.callback.v, v, win.size,
                                                        ph[i].ele, ph[i].host)
                                   ELSE NoArgs]
            IN IF ReturnsEarly(layout) \/ layout.t = "throw"
               THEN /\ last' = [last EXCEPT ![i] = Finished(i, c)]
                    /\ queue' = Tail(queue)
                    /\ UNCHANGED <<pc, cur>>
               ELSE /\ cur' = c
                    /\ pc' = "remove"
                    /\ UNCHANGED <<last, queue>>
    /\ UNCHANGED <<win, tagCall, cfg, descs, ph, regs, dom, nextId, updates>>

\* if (prevEle) Builder.removeNode(prevEle);
UpdateRemove ==
    /\ pc = "remove"
    /\ dom' = RemovePrevious(dom, ph[cur.ph].prevEle)
    /\ cur' = [cur EXCEPT !.removed =
                  IF dom' # dom THEN ph[cur.ph].prevEle ELSE 0]
    /\ pc' = "build"
    /\ UNCHANGED <<win, tagCall, cfg, descs, ph, regs, nextId, queue, last, updates>>

\* const frag = Builder.build(layout, null, parent); prevEle = frag.children[0];
UpdateBuild ==
    /\ pc = "build"
    /\ LET frag == BuilderBuild(cur.layout, cur.ph, nextId)
       IN /\ cur' = [cur EXCEPT !.frag = frag]
          /\ ph' = [ph EXCEPT ![cur.ph].prevEle = TrackedChild(frag)]
          /\ nextId' = nextId + Len(frag)
    /\ pc' = "insert"
    /\ UNCHANGED <<win, tagCall, cfg, descs, regs, dom, queue, last, updates>>

\* ele.parentNode.insertBefore(frag, ele.nextSibling);
UpdateInsert ==
    /\ pc = "insert"
    /\ dom' = InsertAfterAnchor(dom, ph[cur.ph].ele, cur.frag)
    /\ last' = [last EXCEPT ![cur.ph] = Finished(cur.ph, cur)]
    /\ queue' = Tail(queue)
    /\ cur' = NoCur
    /\ pc' = "idle"
    /\ UNCHANGED <<win, tagCall, cfg, descs, ph, regs, nextId, updates>>

(***************************************************************************)
(* UseParent: the host realizes the descriptor and the creation hook runs  *)
(* updateLayout once.  ele._prevEle is not set before the build, so the    *)
(* removal the second definition starts with finds nothing.                *)
(***************************************************************************)
\* the callback: settings.pop() in the variadic definition, the first
\* argument in the other
UseCallback(family, args) ==
    IF family = "UseParent" THEN PopValue(args) ELSE At(args, 0)

\* if (typeof callBack !== 'function') return; only the variadic definition
UseSkipsCall(family, callBack) ==
    family = "UseParent" /\ TypeOf(callBack) # "function"

\* what callBack(parent) yields
UseResults(callBack) ==
    IF TypeOf(callBack) = "function" THEN UserResults(callBack) ELSE {TypeError}

\* ele._prevEle = frag.childNodes[0], kept by the second definition only
UseTracked(family, frag) ==
    IF family = "UseParent2" /\ frag # <<>> THEN frag[1].id ELSE 0

\* ele.parentNode.insertBefore(frag, ele.nextSibling) in use.js
UseInsertAtEnd(d, ele, frag) == d \o frag
UseInsert(d, ele, frag) == InsertAfterAnchor(d, ele, frag)

RealizeUse(d, h, pos) ==
    /\ Quiet
    /\ descs[d].made
    /\ ~descs[d].realized
    /\ descs[d].family \in UseFamilies
    /\ LET family == descs[d].family
           callBack == UseCallback(family, descs[d].args)
           i == Len(ph) + 1
           anchored == InsertAt(dom, pos, DomNode(nextId, "anchor", i, Undefined))
       IN /\ descs' = [descs EXCEPT ![d].realized = TRUE, ![d].user = callBack,
                                     ![d].callback = callBack]
          /\ IF UseSkipsCall(family, callBack)
             THEN /\ ph' = Append(ph, Placeholder(d, h, nextId, Undefined,
                                                  PassThrough(callBack), 0))
                  /\ dom' = anchored
                  /\ nextId' = nextId + 1
                  /\ last' = Append(last, NoLast)
             ELSE \E layout \in UseResults(callBack) :
                    LET frag == IF ReturnsEarly(layout) \/ layout.t = "throw"
                                THEN <<>>
                                ELSE BuilderBuild(layout, i, nextId + 1)
                    IN /\ ph' = Append(ph, Placeholder(d, h, nextId, Undefined,
                                                       PassThrough(callBack),
                                                       UseTracked(family, frag)))
                       /\ dom' = UseInsert(anchored, nextId, frag)
                       /\ nextId' = nextId + 1 + Len(frag)
                       /\ last' = Append(last,
                              [NoLast EXCEPT !.n = 1, !.layout = layout,
                                             !.invoked = TypeOf(callBack) = "function",
                                             !.args = UseArgs(h), !.frag = frag,
                                             !.userCalled = TypeOf(callBack) = "function",
                                             !.userArgs = UseArgs(h),
                                             !.threw = layout.t = "throw"])
    /\ UNCHANGED <<win, tagCall, cfg, regs, queue, pc, cur, updates>>

(***************************************************************************)
(* The host writes property prop of src: the watch mechanism delivers the  *)
(* value to the watchers of the pair, none for a pair nobody watches.      *)
(***************************************************************************)
HostSources(h) ==
    {x \in {Host(h).data, Host(h).state} : x.t = "object"}

Write(src, prop, v) ==
    /\ Quiet
    /\ updates < MaxUpdates
    /\ LET w == Watchers(src, prop)
       IN queue' = [k \in 1..Len(w) |-> [ph |-> w[k].update, value |-> v]]
    /\ updates' = updates + 1
    /\ UNCHANGED <<win, tagCall, cfg, descs, ph, regs, dom, nextId, pc, cur, last>>

(***************************************************************************)
(* The host removes the anchor of placeholder i: it detaches the node,     *)
(* runs the destruction hook the descriptor carries, if it carries one,    *)
(* and releases the watches bound to the node.                             *)
(***************************************************************************)
\* onDestroyed of the second use.js: removes ele._prevEle
RunOnDestroyed(d, descriptor, prevEle) ==
    IF TypeOf(descriptor.onDestroyed) = "function" /\ prevEle # 0
    THEN BuilderRemoveNode(d, prevEle) ELSE d

Destroy(i) ==
    /\ Quiet
    /\ ~ph[i].destroyed
    /\ LET descriptor == descs[ph[i].desc].descriptor
           ran == TypeOf(descriptor.onDestroyed) = "function"
       IN /\ dom' = RunOnDestroyed(BuilderRemoveNode(dom, ph[i].ele), descriptor,
                                   ph[i].prevEle)
          /\ ph' = [ph EXCEPT ![i].destroyed = TRUE,
                              ![i].onDestroyedRuns = IF ran THEN @ + 1 ELSE @,
                              ![i].prevEle = IF ran THEN 0 ELSE @]
    /\ regs' = [r \in 1..Len(regs) |->
                    IF regs[r].ele = ph[i].ele
                    THEN [regs[r] EXCEPT !.released = TRUE] ELSE regs[r]]
    /\ UNCHANGED <<win, tagCall, cfg, descs, nextId, queue, pc, cur, last, updates>>

(***************************************************************************)
(* The size tracker.  The window gets a new width and the resize listener  *)
(* runs handleResize: both fields are written when either differs, and the *)
(* write of size reaches the watchers of (sizeData, 'size').               *)
(***************************************************************************)
Resize(innerWidth) ==
    /\ Quiet
    /\ win.hasWindow
    /\ win.listeners > 0
    /\ LET newWidth == innerWidth
           newBreakpoint == getBreakpointName(newWidth)
           changed == ResizeChanged(newWidth, newBreakpoint, win)
           w == Watchers(SizeData, PropSize)
       IN /\ (changed /\ w # <<>>) => updates < MaxUpdates
          /\ \E delivers \in (IF changed THEN DeliversOnWrite(win.size, newBreakpoint)
                                ELSE {FALSE}) :
               /\ queue' = IF delivers
                           THEN [k \in 1..Len(w) |->
                                    [ph |-> w[k].update, value |-> newBreakpoint,
                                     cause |-> "resize"]]
                           ELSE <<>>
               /\ updates' = IF queue' # <<>> THEN updates + 1 ELSE updates
               /\ win' = [win EXCEPT
                            !.innerWidth = innerWidth,
                            !.width = IF changed THEN newWidth ELSE @,
                            !.size = IF changed THEN newBreakpoint ELSE @,
                            !.ev = [n |-> IF @.n < 2 THEN @.n + 1 ELSE 2,
                                    sizeBefore |-> win.size,
                                    widthDiffered |-> newWidth # win.width,
                                    wrote |-> changed,
                                    notified |-> Len(queue'),
                                    widthAtSizeWrite |->
                                        IF changed THEN WidthAtSizeWrite(newWidth, win)
                                        ELSE win.width]]
    /\ UNCHANGED <<tagCall, cfg, descs, ph, regs, dom, nextId, pc, cur, last>>

\* the watch mechanism hands the value sizeData.size has to a watcher that
\* has not been notified yet
DeliverCurrent(r) ==
    /\ Quiet
    /\ updates < MaxUpdates
    /\ regs[r].src = SizeData /\ regs[r].prop = PropSize
    /\ ~regs[r].released
    /\ last[regs[r].update].n = 0
    /\ queue' = <<[ph |-> regs[r].update, value |-> win.size, cause |-> "watch"]>>
    /\ updates' = updates + 1
    /\ UNCHANGED <<win, tagCall, cfg, descs, ph, regs, dom, nextId, pc, cur, last>>

\* a resize event after the listener was removed: no handler runs
ResizeUnheard(innerWidth) ==
    /\ Quiet
    /\ win.hasWindow
    /\ win.listeners = 0
    /\ win' = [win EXCEPT
                 !.innerWidth = innerWidth,
                 !.ev = [n |-> IF @.n < 2 THEN @.n + 1 ELSE 2,
                         sizeBefore |-> win.size,
                         widthDiffered |-> innerWidth # win.width,
                         wrote |-> FALSE, notified |-> 0,
                         widthAtSizeWrite |-> win.width],
                 !.cleaned.events = IF @ < 2 THEN @ + 1 ELSE 2]
    /\ UNCHANGED <<tagCall, cfg, descs, ph, regs, dom, nextId, queue, pc, cur, last,
                   updates>>

\* cleanupSizeTracker(): the function initializeSizeTracker returned
CallCleanup ==
    /\ Quiet
    /\ TypeOf(win.cleanup) = "function"
    /\ win' = [win EXCEPT
                 !.listeners = RemoveListener(@),
                 !.cleaned = IF @.called THEN @
                             ELSE [called |-> TRUE, size |-> win.size,
                                   width |-> win.width, events |-> 0]]
    /\ UNCHANGED <<tagCall, cfg, descs, ph, regs, dom, nextId, queue, pc, cur, last,
                   updates>>

(***************************************************************************)
(* A tag atom is called.                                                   *)
(***************************************************************************)
TagAtomCall(atom, props, children) ==
    /\ tagCall = NoTagCall
    /\ tagCall' = [atom |-> atom, props |-> props, children |-> children,
                   result |-> TagAtom(atom, props, children)]
    /\ UNCHANGED <<win, cfg, descs, ph, regs, dom, nextId, queue, pc, cur, last,
                   updates>>

Next ==
    \/ \E family \in cfg.families : \E args \in ArgForms(family, cfg.callbacks) :
            FactoryCall(family, args)
    \/ \E d \in 1..Len(descs) : \E h \in Hosts : \E pos \in 0..Len(dom) : Realize(d, h, pos)
    \/ \E d \in 1..Len(descs) : \E h \in Hosts : \E pos \in 0..Len(dom) : RealizeUse(d, h, pos)
    \/ \E r \in 1..Len(regs) : \E v \in Values : Notify(r, v)
    \/ \E i \in 1..Len(ph) : \E src \in HostSources(ph[i].host) : \E v \in Values :
            PhFamily(i) \in UseFamilies /\ Write(src, PropP, v)
    \/ \E i \in 1..Len(ph) : Destroy(i)
    \/ UpdateCall
    \/ UpdateRemove
    \/ UpdateBuild
    \/ UpdateInsert

Spec == Init /\ [][Next]_vars

(***************************************************************************)
(* The tracker alone: the module is loaded in a window of any width up to  *)
(* MaxWidth, and the window is resized by a pixel or to a width at one of  *)
(* the breakpoints.                                                        *)
(***************************************************************************)
BoundaryWidths == {0, 639, 640, 767, 768, 1023, 1024, 1279, 1280, 1535, 1536}

InitWidth ==
    /\ cfg = [descs |-> 0, families |-> {}, callbacks |-> {}]
    /\ descs = <<>>
    /\ ph = <<>>
    /\ regs = <<>>
    /\ dom = <<Unrelated>>
    /\ nextId = 2
    /\ queue = <<>>
    /\ pc = "idle"
    /\ cur = NoCur
    /\ last = <<>>
    /\ updates = 0
    /\ \E innerWidth \in 0..MaxWidth : win = ModuleLoad(TRUE, innerWidth)
    /\ tagCall = NoTagCall

NextWidth ==
    \/ \E innerWidth \in BoundaryWidths : Resize(innerWidth)
    \/ \E innerWidth \in {win.innerWidth - 1, win.innerWidth + 1} \cap (0..MaxWidth) :
            Resize(innerWidth)
    \/ Resize(win.innerWidth)

SpecWidth == InitWidth /\ [][NextWidth]_vars

(***************************************************************************)
(* The responsive atoms: the module is loaded with or without a window,    *)
(* one responsive factory is called and its placeholder realized, and the  *)
(* window is resized between widths at the breakpoints.                     *)
(***************************************************************************)
InitSize ==
    /\ cfg = [descs |-> 1, families |-> ResponsiveAtoms, callbacks |-> {CbElem}]
    /\ descs = <<>>
    /\ ph = <<>>
    /\ regs = <<>>
    /\ dom = <<Unrelated>>
    /\ nextId = 2
    /\ queue = <<>>
    /\ pc = "idle"
    /\ cur = NoCur
    /\ last = <<>>
    /\ updates = 0
    /\ \E hasWindow \in BOOLEAN : \E innerWidth \in BoundaryWidths :
            win = ModuleLoad(hasWindow, innerWidth)
    /\ tagCall = NoTagCall

NextSize ==
    \/ \E atom \in cfg.families : \E args \in ArgForms(atom, cfg.callbacks) :
            FactoryCall(atom, args)
    \/ \E d \in 1..Len(descs) : \E pos \in 0..Len(dom) : Realize(d, "h1", pos)
    \/ \E innerWidth \in BoundaryWidths : Resize(innerWidth)
    \/ \E r \in 1..Len(regs) : DeliverCurrent(r)
    \/ UpdateCall
    \/ UpdateRemove
    \/ UpdateBuild
    \/ UpdateInsert

SpecSize == InitSize /\ [][NextSize]_vars

(***************************************************************************)
(* The tag atoms: one call of one atom.                                    *)
(***************************************************************************)
InitTag == Init

NextTag ==
    \E atom \in TagAtoms : \E props \in PropsObjects : \E children \in ChildrenValues :
        TagAtomCall(atom, props, children)

SpecTag == InitTag /\ [][NextTag]_vars

(***************************************************************************)
(* Layout shapes: one On or UseParent placeholder whose render callback    *)
(* returns any shape of layout: nothing, one element, two top-level        *)
(* elements, or a nested placeholder followed by an element.               *)
(***************************************************************************)
InitShapes ==
    /\ cfg = [descs |-> 1, families |-> {"On", "UseParent2"}, callbacks |-> {CbAny}]
    /\ descs = <<>>
    /\ ph = <<>>
    /\ regs = <<>>
    /\ dom = <<Unrelated>>
    /\ nextId = 2
    /\ queue = <<>>
    /\ pc = "idle"
    /\ cur = NoCur
    /\ last = <<>>
    /\ updates = 0
    /\ win = ModuleLoad(FALSE, 0)
    /\ tagCall = NoTagCall

NextShapes ==
    \/ \E family \in cfg.families : \E args \in ArgForms(family, cfg.callbacks) :
            FactoryCall(family, args)
    \/ \E d \in 1..Len(descs) : \E pos \in 0..Len(dom) : Realize(d, "h1", pos)
    \/ \E d \in 1..Len(descs) : \E pos \in 0..Len(dom) : RealizeUse(d, "h1", pos)
    \/ \E r \in 1..Len(regs) : Notify(r, True)
    \/ UpdateCall
    \/ UpdateRemove
    \/ UpdateBuild
    \/ UpdateInsert

SpecShapes == InitShapes /\ [][NextShapes]_vars

(***************************************************************************)
(* One descriptor built more than once: a factory of on.js is called once  *)
(* and the host builds the descriptor under up to MaxRuns different hosts. *)
(***************************************************************************)
InitRerun ==
    /\ cfg = [descs |-> 1, families |-> Families, callbacks |-> {CbElem}]
    /\ descs = <<>>
    /\ ph = <<>>
    /\ regs = <<>>
    /\ dom = <<Unrelated>>
    /\ nextId = 2
    /\ queue = <<>>
    /\ pc = "idle"
    /\ cur = NoCur
    /\ last = <<>>
    /\ updates = 0
    /\ win = ModuleLoad(FALSE, 0)
    /\ tagCall = NoTagCall

NextRerun ==
    \/ \E family \in cfg.families : \E args \in ArgForms(family, cfg.callbacks) :
            FactoryCall(family, args)
    \/ \E d \in 1..Len(descs) : \E h \in Hosts : Realize(d, h, 0)
    \/ \E d \in 1..Len(descs) : \E h \in Hosts : RealizeAgain(d, h, 0)

SpecRerun == InitRerun /\ [][NextRerun]_vars

(***************************************************************************)
(* Several placeholders under one DOM parent: On is called twice, the host *)
(* attaches both anchors among the children of one parent, and the         *)
(* sources notify in any order.                                            *)
(***************************************************************************)
InitShared ==
    /\ cfg = [descs |-> 2, families |-> {"On"}, callbacks |-> {CbElem}]
    /\ descs = <<>>
    /\ ph = <<>>
    /\ regs = <<>>
    /\ dom = <<Unrelated>>
    /\ nextId = 2
    /\ queue = <<>>
    /\ pc = "idle"
    /\ cur = NoCur
    /\ last = <<>>
    /\ updates = 0
    /\ win = ModuleLoad(FALSE, 0)
    /\ tagCall = NoTagCall

NextShared ==
    \/ \E family \in cfg.families : \E args \in ArgForms(family, cfg.callbacks) :
            FactoryCall(family, args)
    \/ \E d \in 1..Len(descs) : \E pos \in 0..Len(dom) : Realize(d, "h1", pos)
    \/ \E r \in 1..Len(regs) : Notify(r, True)
    \/ UpdateCall
    \/ UpdateRemove
    \/ UpdateBuild
    \/ UpdateInsert

SpecShared == InitShared /\ [][NextShared]_vars

(***************************************************************************)
(* The tracker and its cleanup: the module is loaded with or without a     *)
(* window, the window is resized, and cleanupSizeTracker is called.        *)
(***************************************************************************)
InitCleanup ==
    /\ cfg = [descs |-> 0, families |-> {}, callbacks |-> {}]
    /\ descs = <<>>
    /\ ph = <<>>
    /\ regs = <<>>
    /\ dom = <<Unrelated>>
    /\ nextId = 2
    /\ queue = <<>>
    /\ pc = "idle"
    /\ cur = NoCur
    /\ last = <<>>
    /\ updates = 0
    /\ \E hasWindow \in BOOLEAN : \E innerWidth \in BoundaryWidths :
            win = ModuleLoad(hasWindow, innerWidth)
    /\ tagCall = NoTagCall

NextCleanup ==
    \/ \E innerWidth \in BoundaryWidths : Resize(innerWidth)
    \/ \E innerWidth \in BoundaryWidths : ResizeUnheard(innerWidth)
    \/ CallCleanup

SpecCleanup == InitCleanup /\ [][NextCleanup]_vars

(***************************************************************************)
(* Properties.                                                             *)
(***************************************************************************)

\* placeholder i has finished an update and is not in the middle of another
Settled(i) == last[i].n > 0 /\ ~(pc # "idle" /\ cur.ph = i)

\* placeholder i is in an update that has passed its removal step
PastRemoval(i) == pc \in {"build", "insert"} /\ cur.ph = i

InDom(id) == \E k \in 1..Len(dom) : dom[k].id = id

\* C1: a placeholder whose render callback returns one element descriptor,
\* null or undefined has at most one rendered sibling in the DOM in every
\* state, the states inside an update included.
C1_AtMostOneSibling ==
    \A i \in Placeholders :
        PhCallback(i) = CbElem => Len(Siblings(i)) <= 1

\* an update that replaces a mounted sibling is between removal and insertion
C1_Witness ==
    \E i \in Placeholders :
        /\ PhCallback(i) = CbElem
        /\ pc = "insert" /\ cur.ph = i
        /\ cur.removed # 0 /\ Len(cur.frag) = 1
        /\ Siblings(i) = <<>>

C3_NullClears ==
    \A i \in Placeholders :
        PhCallback(i) = CbElem =>
            /\ (Settled(i) /\ last[i].layout = Null) =>
                  /\ Siblings(i) = <<>>
                  /\ last[i].frag = <<>>
                  /\ ph[i].prevEle = 0
                  /\ last[i].removed = last[i].prevBefore
            /\ (Settled(i) /\ last[i].layout = Div /\ last[i].prevBefore = 0) =>
                  /\ Len(last[i].frag) = 1
                  /\ Siblings(i) = last[i].frag

\* a null result has removed content that an earlier update rendered
C3_Witness ==
    \E i \in Placeholders :
        /\ PhCallback(i) = CbElem
        /\ Settled(i) /\ last[i].layout = Null
        /\ last[i].removed # 0 /\ Len(last[i].sibsBefore) = 1
        /\ Siblings(i) = <<>>

\* C4: after an update whose callback returned null or undefined, nothing
\* rendered by that atom is left in the DOM.
C4_NullishRemovesContent ==
    \A i \in Placeholders :
        (Settled(i) /\ last[i].layout \in {Null, Undefined}) => Siblings(i) = <<>>

\* C5: for On, OnState and OnRoute every delivered value reaches the user's
\* callback, and a descriptor it returns ends as the only rendered sibling,
\* a node built in that update; the previous sibling is removed first, also
\* when the value equals the one delivered before.
C5_EveryNotificationUpdates ==
    \A i \in Placeholders :
        (PhFamily(i) \in {"On", "OnState", "OnRoute"} /\ PhCallback(i) = CbElem) =>
            /\ (Settled(i) /\ last[i].layout = Div) =>
                  /\ last[i].invoked
                  /\ last[i].args.value = last[i].value
                  /\ Len(last[i].frag) = 1
                  /\ Siblings(i) = last[i].frag
                  /\ last[i].frag[1].layout = last[i].layout
                  /\ last[i].removed = last[i].prevBefore
                  /\ last[i].frag[1].id # last[i].prevBefore
                  /\ ph[i].prevEle = last[i].frag[1].id
            /\ (PastRemoval(i) /\ last[i].n > 0) =>
                  /\ cur.invoked
                  /\ cur.removed = cur.prevBefore
                  /\ ~InDom(cur.prevBefore)

\* the same value is delivered twice running and the second update has
\* removed the sibling the first one rendered and built a new one
C5_Witness ==
    \E i \in Placeholders :
        /\ PhFamily(i) \in {"On", "OnState", "OnRoute"}
        /\ pc = "insert" /\ cur.ph = i
        /\ last[i].n > 0 /\ last[i].layout = Div /\ cur.layout = Div
        /\ cur.value = last[i].value
        /\ cur.removed = last[i].frag[1].id
        /\ cur.frag[1].id # cur.removed

\* the watch the creation hook of placeholder i registered
PhReg(i) == CHOOSE r \in {regs[k] : k \in 1..Len(regs)} : r.update = i

\* the source the resolver yields for the host of placeholder i
ResolvedSource(i) == getDataSource(Host(ph[i].host), SourceType(PhFamily(i)))

\* C6: If(prop, expected, cb) and IfState(prop, expected, cb) watch prop on
\* the source resolved from the host context and compare the delivered value
\* with expected.
C6_IfResolvesSource ==
    \A i \in Placeholders :
        (PhFamily(i) \in {"If", "IfState"} /\ Len(PhArgs(i)) = 3) =>
            /\ PhReg(i).src = ResolvedSource(i)
            /\ PhReg(i).prop = PhArgs(i)[1]
            /\ ph[i].callBack.expected = PhArgs(i)[2]

\* C7: in the form If(data, prop, expected, cb), and IfState likewise, the
\* watch is on (data, prop), the user's callback is invoked iff the delivered
\* value is strictly equal to expected, and for every other value the result
\* is null: the previous content is removed and nothing is inserted.
C7_ExplicitIfStrictEquality ==
    \A i \in Placeholders :
        (PhFamily(i) \in {"If", "IfState"} /\ Len(PhArgs(i)) = 4) =>
            /\ PhReg(i).src = PhArgs(i)[1]
            /\ PhReg(i).prop = PhArgs(i)[2]
            /\ Settled(i) =>
                  /\ last[i].invoked <=> (last[i].value = PhArgs(i)[3])
                  /\ ~last[i].invoked =>
                        /\ last[i].layout = Null
                        /\ last[i].removed = last[i].prevBefore
                        /\ last[i].frag = <<>>
                        /\ Siblings(i) = <<>>

\* a value that is loosely but not strictly equal to expected has removed
\* the content rendered for expected
C7_Witness ==
    \E i \in Placeholders :
        /\ PhFamily(i) \in {"If", "IfState"} /\ Len(PhArgs(i)) = 4
        /\ Settled(i) /\ ~last[i].invoked
        /\ LooseEquals(last[i].value, PhArgs(i)[3])
        /\ last[i].removed # 0
        /\ Siblings(i) = <<>>

\* C8: OnLoad(cb) watches "loaded" on the source resolved from the host
\* context; a delivered false leaves nothing rendered (and removes what was),
\* a delivered true invokes cb with true and renders what it returns.
C8_OnLoadCallbackOnly ==
    \A i \in Placeholders :
        (PhFamily(i) = "OnLoad" /\ Len(PhArgs(i)) = 1) =>
            /\ PhReg(i).src = ResolvedSource(i)
            /\ PhReg(i).prop = Str("loaded")
            /\ (Settled(i) /\ last[i].value = False) =>
                  /\ ~last[i].invoked
                  /\ last[i].removed = last[i].prevBefore
                  /\ Siblings(i) = <<>>
            /\ (Settled(i) /\ last[i].value = True) =>
                  /\ last[i].invoked
                  /\ last[i].args.value = True
                  /\ last[i].layout = Div =>
                        /\ Len(last[i].frag) = 1
                        /\ Siblings(i) = last[i].frag

\* loaded went back to false and the content rendered for true is removed
C8_Witness ==
    \E i \in Placeholders :
        /\ PhFamily(i) = "OnLoad" /\ Len(PhArgs(i)) = 1
        /\ Settled(i) /\ last[i].value = False
        /\ last[i].removed # 0
        /\ Len(last[i].sibsBefore) = 1 /\ last[i].sibsBefore[1].layout = Div
        /\ Siblings(i) = <<>>

\* the argument given after the callback, null when there is none
ArgAfterCallback(args) ==
    LET k == IF TypeOf(At(args, 0)) = "function" THEN 1 ELSE 2
    IN IF Len(args) > k THEN args[k + 1] ELSE Null

C10_TruthyRenders ==
    \A i \in Placeholders :
        (PhFamily(i) \in LoadFamilies /\ Settled(i) /\ Truthy(last[i].value)) =>
            last[i].invoked

PhAtom(i) == descs[ph[i].desc].atom

\* the watches the creation hook of placeholder i registered
RegsOf(i) == {k \in 1..Len(regs) : regs[k].update = i}

\* the call that made placeholder i passed no data source
NoSourcePassed(i) ==
    \/ PhAtom(i) \in {"On", "OnState", "OnRoute"} /\ Len(PhArgs(i)) = 2
    \/ PhAtom(i) \in {"If", "IfState"} /\ Len(PhArgs(i)) = 3
    \/ PhAtom(i) \in LoadFamilies /\ TypeOf(At(PhArgs(i), 0)) = "function"

\* the call that made placeholder i passed a data source first
SourcePassed(i) ==
    \/ PhAtom(i) \in {"On", "OnState", "OnRoute"} /\ Len(PhArgs(i)) = 3
    \/ PhAtom(i) \in {"If", "IfState"} /\ Len(PhArgs(i)) = 4
    \/ PhAtom(i) \in LoadFamilies /\ TypeOf(At(PhArgs(i), 0)) # "function"

Present(x) == x \notin {Undefined, Null}

\* the source the documented resolution order gives for an atom under parent
DocumentedSource(atom, parent) ==
    CASE atom \in {"On", "If", "OnLoad", "OnOpen"} ->
            IF Present(parent.data) THEN parent.data
            ELSE IF Present(ContextData(parent.context)) THEN ContextData(parent.context)
            ELSE IF Present(parent.state) THEN parent.state
            ELSE Null
      [] atom \in {"OnState", "IfState", "OnStateLoad", "OnStateOpen"} -> parent.state
      [] OTHER -> parent.route

\* C11: an atom called without a data source watches the source resolved
\* from its host: for On, If, OnLoad and OnOpen data, else context.data, else
\* state, else null; for the state atoms parent.state and for OnRoute
\* parent.route, whatever else the host has.
C11_ResolutionOrder ==
    \A i \in Placeholders :
        NoSourcePassed(i) =>
            PhReg(i).src = DocumentedSource(PhAtom(i), Host(ph[i].host))

\* C12: an atom called with a data source first leaves its settings as the
\* call gave them, so nothing of the host is read into them, and registers
\* its one watch on that source, under every host.
C12_ExplicitSourceUsed ==
    \A i \in Placeholders :
        SourcePassed(i) =>
            /\ descs[ph[i].desc].settings = FactorySettings(PhAtom(i), PhArgs(i))
            /\ Cardinality(RegsOf(i)) = 1
            /\ PhReg(i).src = PhArgs(i)[1]

\* an atom with an explicit source is realized under a host that has data
\* of its own and has rendered on a write to the explicit source
C12_Witness ==
    \E i \in Placeholders :
        /\ SourcePassed(i)
        /\ Present(Host(ph[i].host).data)
        /\ PhReg(i).src = ExplicitData
        /\ Settled(i) /\ Len(Siblings(i)) = 1

\* the host of placeholder i has no data, no context.data and no state
NothingToResolve(i) ==
    LET parent == Host(ph[i].host)
    IN /\ ~Present(parent.data)
       /\ ~Present(ContextData(parent.context))
       /\ ~Present(parent.state)

\* C13: when On, OnLoad or OnOpen is called without a source and the host
\* has no data, no context.data and no state, the creation hook registers
\* exactly one watch, with null as its source, throws nothing and renders
\* nothing.
C13_NullSourceRegistered ==
    \A i \in Placeholders :
        (NoSourcePassed(i) /\ PhAtom(i) \in {"On", "OnLoad", "OnOpen"}
            /\ NothingToResolve(i)) =>
            /\ Cardinality(RegsOf(i)) = 1
            /\ PhReg(i).src = Null
            /\ PhReg(i).prop = (IF PhAtom(i) = "On" THEN PhArgs(i)[1]
                                ELSE IF PhAtom(i) = "OnLoad" THEN Str("loaded")
                                ELSE Str("open"))
            /\ ~last[i].threw
            /\ last[i].n = 0
            /\ Siblings(i) = <<>>

\* the hook of an atom without source has run where nothing resolves
C13_Witness ==
    \E i \in Placeholders :
        /\ NoSourcePassed(i) /\ PhAtom(i) \in {"On", "OnLoad", "OnOpen"}
        /\ NothingToResolve(i)
        /\ Len(descs[ph[i].desc].settings)
                = Len(FactorySettings(PhAtom(i), PhArgs(i))) + 1
        /\ PhReg(i).src = Null

\* the call that made descriptor d gave no function where the factory
\* looks for the callback
BadCallback(d) ==
    LET atom == descs[d].atom
        args == descs[d].args
    IN \/ /\ atom \in CondFamilies \cup ResponsiveAtoms
          /\ TypeOf(PopValue(args)) # "function"
       \/ /\ atom \in LoadFamilies
          /\ TypeOf(At(args, 0)) # "function"
          /\ TypeOf(At(args, 1)) # "function"

\* C14: a generic or responsive factory whose last argument is no function,
\* and a load-style factory with no function among its first two arguments,
\* returns undefined: there is no descriptor, so no placeholder is ever
\* realized from the call, no watch is registered and the DOM stays as it
\* was.
C14_BadCallbackReturnsUndefined ==
    \A d \in 1..Len(descs) :
        BadCallback(d) =>
            /\ ~descs[d].made
            /\ descs[d].descriptor = NoDescriptor
            /\ ~descs[d].realized
            /\ \A i \in Placeholders : ph[i].desc # d
            /\ Len(descs) = 1 => (regs = <<>> /\ dom = <<Unrelated>> /\ last = <<>>)

\* a responsive factory has been called with something that is no function
C14_Witness ==
    \E d \in 1..Len(descs) :
        /\ BadCallback(d)
        /\ descs[d].atom \in ResponsiveAtoms
        /\ descs[d].args = <<Div>>

\* the property the documentation gives for the watch of placeholder i
DocumentedProp(i) ==
    CASE PhAtom(i) \in CondFamilies ->
            IF SourcePassed(i) THEN PhArgs(i)[2] ELSE PhArgs(i)[1]
      [] PhAtom(i) \in {"OnLoad", "OnStateLoad"} -> Str("loaded")
      [] PhAtom(i) \in {"OnOpen", "OnStateOpen"} -> Str("open")
      [] OTHER -> Str("size")

\* C15: a descriptor that is not realized has no placeholder, and while no
\* descriptor is realized there is no watch and the DOM is untouched; the
\* creation hook of a conditional or responsive atom registers exactly one
\* watch, on the caller's property, "loaded", "open" or "size".
C15_OneWatchPerHook ==
    /\ \A d \in 1..Len(descs) :
          ~descs[d].realized => \A i \in Placeholders : ph[i].desc # d
    /\ (\A d \in 1..Len(descs) : ~descs[d].realized) =>
          (regs = <<>> /\ dom = <<Unrelated>>)
    /\ \A i \in Placeholders :
          PhAtom(i) \in Families \cup ResponsiveAtoms =>
              /\ Cardinality(RegsOf(i)) = 1
              /\ PhReg(i).ele = ph[i].ele
              /\ PhReg(i).prop = DocumentedProp(i)

\* the three arguments a callback of placeholder i gets for value v
DocumentedArgs(i, v) ==
    [argc |-> 3, value |-> v, ele |-> ph[i].ele, parent |-> ph[i].host]

\* C16: every update of On, OnState and OnRoute calls the callback, and every
\* update of the filtering atoms whose delivered value equals the expected
\* one does; each call passes the delivered value, the anchor and the parent
\* and nothing else.
C16_CallbackArguments ==
    \A i \in Placeholders :
        PhAtom(i) \in Families =>
            /\ last[i].n > 0 =>
                  /\ PhAtom(i) \in {"On", "OnState", "OnRoute"} => last[i].invoked
                  /\ (ph[i].callBack.eq /\ last[i].value = ph[i].callBack.expected)
                        => last[i].invoked
                  /\ last[i].invoked => last[i].args = DocumentedArgs(i, last[i].value)
            /\ (pc # "idle" /\ cur.ph = i) =>
                  /\ PhAtom(i) \in {"On", "OnState", "OnRoute"} => cur.invoked
                  /\ cur.invoked => cur.args = DocumentedArgs(i, cur.value)

\* On got a value that is not a boolean, and If a value equal to expected
C16_Witness ==
    \E i \in Placeholders :
        /\ last[i].n > 0 /\ last[i].invoked
        /\ last[i].args.ele = ph[i].ele /\ last[i].args.parent = ph[i].host
        /\ \/ PhAtom(i) = "On" /\ last[i].value = Str("1")
           \/ PhAtom(i) = "If" /\ last[i].value = Num("1")

\* C17: once the host has destroyed the anchor of a conditional atom or of
\* UseParent, nothing that placeholder rendered is left in the DOM.
C17_TeardownRemovesSibling ==
    \A i \in Placeholders :
        ph[i].destroyed => Siblings(i) = <<>>

\* C18: the descriptor the placeholder helper returns is a comment that
\* carries the creation hook and the destruction hook it was given, and the
\* host has run a destruction hook that was given exactly once when the
\* anchor is destroyed.
C18_HooksCarried ==
    /\ \A d \in 1..Len(descs) :
          descs[d].made =>
              /\ descs[d].descriptor.tag = "comment"
              /\ descs[d].descriptor.onCreated = descs[d].props.onCreated
              /\ descs[d].descriptor.onDestroyed = descs[d].props.onDestroyed
    /\ \A i \in Placeholders :
          (ph[i].destroyed /\ TypeOf(descs[ph[i].desc].props.onDestroyed) = "function")
              => ph[i].onDestroyedRuns = 1

\* C19: no creation hook, update or UseParent realization has thrown.
C19_NeverRaises ==
    \A i \in Placeholders : ~last[i].threw

\* the nodes of the DOM that follow the anchor of placeholder i
AfterAnchor(i, n) ==
    LET k == IndexOf(dom, ph[i].ele)
    IN SubSeq(dom, k + 1, IF k + n > Len(dom) THEN Len(dom) ELSE k + n)

\* C20: a UseParent placeholder made with a function has called it exactly
\* once, with the host alone, and has no watch; while the anchor is mounted
\* the nodes built from the result (none when the call threw) are the nodes
\* right after the anchor and the only ones it rendered, whatever was
\* written to the host's data or state since.
C20_UseParentRendersOnce ==
    \A i \in Placeholders :
        (PhAtom(i) \in UseFamilies /\ TypeOf(PhCallback(i)) = "function") =>
            /\ last[i].n = 1
            /\ last[i].invoked
            /\ last[i].args = [argc |-> 1, value |-> Undefined, ele |-> 0,
                                parent |-> ph[i].host]
            /\ RegsOf(i) = {}
            /\ \A k \in 1..Len(regs) : regs[k].ele # ph[i].ele
            /\ ~last[i].threw => Len(last[i].frag) = Len(Shape(last[i].layout))
            /\ ~ph[i].destroyed =>
                  /\ AfterAnchor(i, Len(last[i].frag)) = last[i].frag
                  /\ Siblings(i) = last[i].frag

\* the host's data was written after UseParent rendered an element before
\* the other child of the parent
C20_Witness ==
    \E i \in Placeholders :
        /\ PhAtom(i) \in UseFamilies /\ TypeOf(PhCallback(i)) = "function"
        /\ ~ph[i].destroyed
        /\ updates > 0
        /\ Len(last[i].frag) = 1
        /\ IndexOf(dom, ph[i].ele) = 1 /\ Len(dom) = 3

\* the lower bound of each breakpoint as the documentation tables give it
DocumentedBound ==
    [xs |-> 0, sm |-> 640, md |-> 768, lg |-> 1024, xl |-> 1280] @@ ("2xl" :> 1536)

\* the name whose lower bound is the greatest one not exceeding width
GreatestLowerBound(width) ==
    CHOOSE n \in DOMAIN DocumentedBound :
        /\ DocumentedBound[n] <= width
        /\ \A m \in DOMAIN DocumentedBound :
              DocumentedBound[m] <= width => DocumentedBound[m] <= DocumentedBound[n]

\* C21: for every width the window takes, getBreakpointName gives the name
\* of the greatest lower bound not exceeding it; 639 is xs, 640 sm, 1535 xl
\* and 1536 2xl.
C21_BreakpointOfWidth ==
    /\ getBreakpointName(win.innerWidth) = Str(GreatestLowerBound(win.innerWidth))
    /\ win.hasWindow => win.size = Str(GreatestLowerBound(win.width))
    /\ getBreakpointName(639) = Str("xs")
    /\ getBreakpointName(640) = Str("sm")
    /\ getBreakpointName(1535) = Str("xl")
    /\ getBreakpointName(1536) = Str("2xl")

\* the window was resized from 639 to 640 and the tracker went from xs to sm
C21_Witness ==
    /\ win.ev.n > 0 /\ win.ev.sizeBefore = Str("xs")
    /\ win.innerWidth = 640 /\ win.size = Str("sm")

\* C22: with a window, after the module is loaded and after every resize
\* event sizeData.width is the window's width and sizeData.size the
\* breakpoint of sizeData.width.
C22_TrackerInvariant ==
    win.hasWindow =>
        /\ win.width = win.innerWidth
        /\ win.size = getBreakpointName(win.width)

\* two resize events have been processed, the last one inside a breakpoint
C22_Witness ==
    /\ win.hasWindow /\ win.ev.n = 2
    /\ win.ev.wrote /\ win.ev.widthDiffered /\ win.ev.sizeBefore = win.size
    /\ win.width = 641

\* C23: a resize event writes the tracker iff the new width differs from
\* the stored width or the new breakpoint from the stored size; an event
\* that changes neither writes nothing and notifies nobody.
C23_WriteOnlyOnChange ==
    win.ev.n > 0 =>
        /\ win.ev.wrote <=>
              \/ win.ev.widthDiffered
              \/ Str(GreatestLowerBound(win.innerWidth)) # win.ev.sizeBefore
        /\ ~win.ev.wrote =>
              /\ win.size = win.ev.sizeBefore
              /\ win.ev.notified = 0

\* a resize event to the width the window already had, with a responsive
\* atom watching that has rendered before
C23_Witness ==
    /\ win.ev.n > 0 /\ ~win.ev.widthDiffered /\ ~win.ev.wrote
    /\ win.ev.notified = 0
    /\ \E i \in Placeholders : last[i].n > 0 /\ Len(Siblings(i)) = 1

InSync(i) ==
    /\ PhAtom(i) \in ResponsiveAtoms
    /\ Settled(i)
    /\ win.hasWindow
    /\ last[i].value = win.size

\* the position of a breakpoint in the table
Rank(name) ==
    CASE name = "xs" -> 1 [] name = "sm" -> 2 [] name = "md" -> 3
      [] name = "lg" -> 4 [] name = "xl" -> 5 [] name = "2xl" -> 6

\* C25: once an at-least atom has been updated with the breakpoint of the
\* window's width, the user's callback was called and gave the layout iff
\* the width is at least the lower bound of the atom's target, which is iff
\* the rank of the breakpoint is at least the target's; otherwise the layout
\* is null and nothing of the atom is rendered.
C25_AtLeastAtoms ==
    \A i \in Placeholders :
        (InSync(i) /\ PhAtom(i) \in AtLeastAtoms) =>
            LET target == TargetBreakpoint(PhAtom(i)).v
            IN /\ last[i].userCalled <=> (win.width >= DocumentedBound[target])
               /\ last[i].userCalled <=>
                      (Rank(GreatestLowerBound(win.width)) >= Rank(target))
               /\ last[i].userCalled => last[i].layout \in UserResults(CbElem)
               /\ ~last[i].userCalled =>
                      (last[i].layout = Null /\ Siblings(i) = <<>>)

\* OnMd has rendered at 768 or more and the window is now 767 wide
C25_Witness ==
    \E i \in Placeholders :
        /\ InSync(i) /\ PhAtom(i) = "OnMd"
        /\ win.width = 767 /\ ~last[i].userCalled
        /\ last[i].removed # 0 /\ Siblings(i) = <<>>

\* the widths for which the documentation says an exact or semantic atom
\* renders: from lo up to hi, without upper end when hi is -1
DocumentedRange(atom) ==
    CASE atom = "OnXsOnly" -> [lo |-> 0, hi |-> 639]
      [] atom = "OnSmOnly" -> [lo |-> 640, hi |-> 767]
      [] atom = "OnMdOnly" -> [lo |-> 768, hi |-> 1023]
      [] atom = "OnLgOnly" -> [lo |-> 1024, hi |-> 1279]
      [] atom = "OnXlOnly" -> [lo |-> 1280, hi |-> 1535]
      [] atom = "On2XlOnly" -> [lo |-> 1536, hi |-> -1]
      [] atom = "OnPhone" -> [lo |-> 0, hi |-> 767]
      [] atom = "OnTablet" -> [lo |-> 768, hi |-> 1023]
      [] atom = "OnDesktop" -> [lo |-> 1024, hi |-> -1]

InRange(width, range) ==
    range.lo <= width /\ (range.hi = -1 \/ width <= range.hi)

\* C26: once an exact or semantic atom has been updated with the breakpoint
\* of the window's width, the user's callback was called and gave the layout
\* iff the width is in the atom's range; otherwise the layout is null and
\* nothing of the atom is rendered.
C26_ExactAndSemanticAtoms ==
    \A i \in Placeholders :
        (InSync(i) /\ PhAtom(i) \in ExactAtoms \cup SemanticAtoms) =>
            /\ last[i].userCalled <=> InRange(win.width, DocumentedRange(PhAtom(i)))
            /\ last[i].userCalled => last[i].layout \in UserResults(CbElem)
            /\ ~last[i].userCalled =>
                   (last[i].layout = Null /\ Siblings(i) = <<>>)

\* OnMdOnly has rendered and the window is now 1024 wide, or OnPhone has and
\* the window is now 768 wide
C26_Witness ==
    \E i \in Placeholders :
        /\ InSync(i)
        /\ \/ PhAtom(i) = "OnMdOnly" /\ win.width = 1024
           \/ PhAtom(i) = "OnPhone" /\ win.width = 768
        /\ ~last[i].userCalled
        /\ last[i].removed # 0 /\ Siblings(i) = <<>>

C28_OneResizeListener ==
    /\ win.listeners = (IF win.hasWindow THEN 1 ELSE 0)
    /\ \A i \in Placeholders :
          PhAtom(i) \in ResponsiveAtoms =>
              (Cardinality(RegsOf(i)) = 1 /\ PhReg(i).src = SizeData)

\* a responsive atom is realized in a window and has been resized
C28_Witness ==
    /\ win.hasWindow /\ win.listeners = 1 /\ win.ev.n = 2
    /\ \E i \in Placeholders : PhAtom(i) \in ResponsiveAtoms /\ last[i].n > 1

\* the element each export stands for
ElementName(atom) ==
    CASE atom = "Doctype" -> "DOCTYPE"
      [] atom = "Html" -> "html"
      [] atom = "Title" -> "title"
      [] atom = "Meta" -> "meta"
      [] atom = "Link" -> "link"
      [] atom = "Div" -> "div"
      [] atom = "Span" -> "span"
      [] atom = "Button" -> "button"
      [] atom = "SubmitButton" -> "button"
      [] atom = "Img" -> "img"
      [] atom = "Input" -> "input"
      [] atom = "Checkbox" -> "input"

\* C29: the object a tag atom returns has a tag field holding the atom's own
\* element name, whatever the props object it was called with.
C29_TagIsElementName ==
    tagCall.atom # "" =>
        /\ "tag" \in DOMAIN tagCall.result
        /\ tagCall.result["tag"] = Str(ElementName(tagCall.atom))

\* the nodes of a fragment that are in the DOM
Inserted(frag) == SelectSeq(frag, LAMBDA n : InDom(n.id))

C31_BuildOnlyNonNull ==
    pc \in {"build", "insert"} => cur.layout # Null

\* C32: when an update that yielded a result other than undefined has ended,
\* the nodes the placeholder has in the DOM are the nodes of the fragment
\* that update built, whatever shape the layouts of this update and of the
\* updates before it had.
C32_NoAccumulation ==
    \A i \in Placeholders :
        (/\ PhAtom(i) \notin UseFamilies
         /\ Settled(i) /\ ~ph[i].destroyed
         /\ last[i].layout # Undefined /\ ~last[i].threw) =>
            Siblings(i) = last[i].frag

\* the placeholders the runs of the creation hook of descriptor d made
RunsOf(d) == {i \in Placeholders : ph[i].desc = d}

\* C33: when the creation hook of a descriptor made without a data source
\* has run more than once, each run's watch is on the source resolved from
\* the host of that run, and the argument list the factory call captured is
\* still what the call gave.
C33_EachRunResolvesItsHost ==
    \A d \in 1..Len(descs) :
        (Cardinality(RunsOf(d)) > 1 /\ \A i \in RunsOf(d) : NoSourcePassed(i)) =>
            /\ \A i \in RunsOf(d) : PhReg(i).src = ResolvedSource(i)
            /\ descs[d].settings = FactorySettings(descs[d].atom, descs[d].args)

\* the nodes of d that placeholder i did not render: every anchor, the
\* siblings of the other placeholders and the unrelated children
NotRenderedBy(i, d) == SelectSeq(d, LAMBDA n : ~(n.owner = i /\ n.kind # "anchor"))

\* the ids of the nodes of d
Ids(d) == {d[k].id : k \in 1..Len(d)}

\* the n nodes of d that follow the anchor of placeholder i
AfterAnchorIn(d, i, n) ==
    LET k == IndexOf(d, ph[i].ele)
    IN SubSeq(d, k + 1, IF k + n > Len(d) THEN Len(d) ELSE k + n)

\* C34: a step of an update of placeholder i that changes the DOM leaves the
\* nodes i did not render as they were, in presence and in order; what it
\* removes is the sibling i tracks, and what it inserts is the fragment it
\* built, placed right after i's own anchor.
C34_UpdateTouchesOwnSiblingOnly ==
    [][(pc # "idle" /\ dom' # dom) =>
          LET i == cur.ph
          IN /\ NotRenderedBy(i, dom') = NotRenderedBy(i, dom)
             /\ Ids(dom) \ Ids(dom') \subseteq {ph[i].prevEle}
             /\ Ids(dom') \ Ids(dom) = Ids(cur.frag)
             /\ AfterAnchorIn(dom', i, Len(cur.frag)) = cur.frag]_vars

\* two placeholders under the parent each have a rendered sibling, and one
\* of them has replaced its sibling while the other's was mounted
C34_Witness ==
    \E i, j \in Placeholders :
        /\ i # j
        /\ Settled(i) /\ Settled(j)
        /\ Len(Siblings(i)) = 1 /\ Len(Siblings(j)) = 1
        /\ last[i].removed # 0
        /\ last[i].frag[1].id > last[j].frag[1].id

\* the atoms of a family whose wrapper test passes for the value size
Matching(atoms, size) == {a \in atoms : WrapperMatches(a, size)}

\* C35: for the value sizeData.size holds, null included, the at-least atom
\* for T passes its test iff an exact atom for a breakpoint of rank at least
\* T's passes its own, exactly one exact atom passes, and exactly one of
\* OnPhone, OnTablet and OnDesktop passes.
C35_FamiliesAgree ==
    /\ \A t \in AtLeastAtoms :
          WrapperMatches(t, win.size) <=>
              \E u \in Matching(ExactAtoms, win.size) :
                  Rank(TargetBreakpoint(u).v) >= Rank(TargetBreakpoint(t).v)
    /\ Cardinality(Matching(ExactAtoms, win.size)) = 1
    /\ Cardinality(Matching(SemanticAtoms, win.size)) = 1

C37_CleanupStopsTracking ==
    /\ ~win.hasWindow =>
          /\ win.size = Null /\ win.width = 0
          /\ win.listeners = 0
          /\ win.cleanup = Null
    /\ win.hasWindow => TypeOf(win.cleanup) = "function"
    /\ win.cleaned.called =>
          /\ win.listeners = 0
          /\ win.size = win.cleaned.size
          /\ win.width = win.cleaned.width

\* after the cleanup the window was resized into another breakpoint
C37_Witness ==
    /\ win.hasWindow /\ win.cleaned.called /\ win.cleaned.events > 0
    /\ win.innerWidth # win.width
    /\ getBreakpointName(win.innerWidth) # win.size

\* C38: an update whose callback threw has left the siblings and the tracked
\* sibling as they were when it began; and whenever no update of a mounted
\* placeholder is running, the sibling it tracks is none or the node right
\* after its anchor.
C38_TrackedSiblingAttached ==
    \A i \in Placeholders :
        (PhAtom(i) \notin UseFamilies /\ Settled(i) /\ ~ph[i].destroyed) =>
            /\ last[i].threw =>
                  /\ Siblings(i) = last[i].sibsBefore
                  /\ ph[i].prevEle = last[i].prevBefore
            /\ \/ ph[i].prevEle = 0
               \/ /\ InDom(ph[i].prevEle)
                  /\ AfterAnchor(i, 1) # <<>>
                  /\ AfterAnchor(i, 1)[1].id = ph[i].prevEle

\* C39: an export of on.js returns a descriptor for the arguments for which
\* the hand-written atom of the same name returns one, and its creation hook
\* registers the watch on the source and property, with the update callback,
\* that the hand-written hook gets from the same arguments under the same
\* host.
C39_SameAsHandWritten ==
    /\ \A d \in 1..Len(descs) :
          descs[d].atom \in Families =>
              (descs[d].made <=> LegacyReturns(descs[d].atom, descs[d].args))
    /\ \A i \in Placeholders :
          PhAtom(i) \in Families =>
              LET family == PhAtom(i)
                  callback == LegacyCallback(family, PhArgs(i))
                  settings == LegacyHookSettings(family,
                                  FactorySettings(family, PhArgs(i)), Host(ph[i].host))
              IN /\ PhReg(i).src = At(settings, 0)
                 /\ PhReg(i).prop = LegacyHookProp(family, settings)
                 /\ ph[i].callBack = LegacyTransform(family, callback, settings)

====
